---------------------------- MODULE Spec2Model ----------------------------
(***************************************************************************)
(* A model of polygon.py: Line intersection (Line.__mul__, Line.project),  *)
(* Segment construction and orientation (Segment.__init__, compute_hole),  *)
(* and the Boolean engine Part.combine with its callers __add__, __sub__,  *)
(* __mul__.                                                                *)
(*                                                                         *)
(* Coordinates are the raw integers of Point.c.  Directions                *)
(* (Vector.direction, atan2 in degrees, range (-180, 180]) are never       *)
(* computed: the source only compares them, and the comparisons are done   *)
(* here exactly on the integer vectors.  Parametric positions (dist_on)    *)
(* are exact rationals n/d with d > 0.  The inputs are restricted to the   *)
(* lines on which the source's floating-point results equal the exact      *)
(* ones (axis-aligned and 45-degree lines on a small grid).                *)
(***************************************************************************)
EXTENDS Integers, Sequences, FiniteSets, TLC

VARIABLES
    \* --- Line * Line ---
    lineA, linePc, lineB, mulAB, mulBA,
    \* --- Segment construction ---
    segPc, segArgs, segHole, seg, segNeg,
    \* --- Part.combine ---
    pc, A, B, op, min_stack, lines, intersection, points, frames, stack,
    wstack, branch, new_result, result, raised, swapped, prev

lineVars == <<lineA, lineB, linePc, mulAB, mulBA>>
segVars  == <<segPc, segArgs, segHole, seg, segNeg>>
combVars == <<pc, A, B, op, min_stack, lines, intersection, points, frames,
              stack, wstack, branch, new_result, result, raised, swapped, prev>>
vars == <<lineVars, segVars, combVars>>

-----------------------------------------------------------------------------
(* Bounds of the model *)

\* Line endpoints are drawn from the grid 0..MaxLineX x 0..MaxLineY.
MaxLineX == 3
MaxLineY == 2
\* Segment points are drawn from the grid 0..MaxSegX x 0..MaxSegY.
MaxSegX == 2
MaxSegY == 1
\* The longest point sequence a Segment is constructed from.
MaxSegPoints == 5
\* The rectangles of the single-rectangle operands of a Part operation have
\* their corners on the grid 0..MaxX x 0..MaxY.
MaxX == 2
MaxY == 2
\* The number of squares nested in one another, and the most of them in an
\* operand.
MaxNest == 4
MaxSegments == 2
\* The number of those squares in the operands of the operations that are
\* done in both orders; these operands may list a square more than once.
MaxRepeat == 2
\* The triangles of the triangle operands have their corners on the grid
\* 0..MaxTriX x 0..MaxTriY.
MaxTriX == 2
MaxTriY == 1

-----------------------------------------------------------------------------
(* Vector and Point *)

\* Point.__sub__(Point): the Vector from q to p.
Sub(p, q) == <<p[1] - q[1], p[2] - q[2]>>

\* Vector.__add__
VAdd(u, w) == <<u[1] + w[1], u[2] + w[2]>>

\* Vector.__mul__(Vector): dot product.
Dot(u, w) == u[1] * w[1] + u[2] * w[2]

Cross(u, w) == u[1] * w[2] - u[2] * w[1]

\* Ordering of the tuples Point.c, as Python compares them.
PtLess(p, q) == p[1] < q[1] \/ (p[1] = q[1] /\ p[2] < q[2])

\* Where atan2(v[2], v[1]) falls in (-180, 180]: 0 for (-180, 0), 1 for 0
\* (the zero vector included: atan2(0, 0) = 0), 2 for (0, 180), 3 for 180.
DirRank(v) ==
    IF v[2] < 0 THEN 0
    ELSE IF v[2] = 0 /\ v[1] >= 0 THEN 1
    ELSE IF v[2] > 0 THEN 2
    ELSE 3

\* u.direction() < w.direction()
DirLess(u, w) ==
    IF DirRank(u) # DirRank(w) THEN DirRank(u) < DirRank(w)
    ELSE IF DirRank(u) \in {1, 3} THEN FALSE
    ELSE Cross(u, w) > 0

\* (u.direction() - ref.direction()) % 360 < (w.direction() - ref.direction()) % 360
\* The key is dir(u) - dir(ref) when dir(u) >= dir(ref), and that plus 360 otherwise.
RelDirLess(u, w, ref) ==
    LET cu == IF DirLess(u, ref) THEN 1 ELSE 0
        cw == IF DirLess(w, ref) THEN 1 ELSE 0
    IN  IF cu # cw THEN cu < cw ELSE DirLess(u, w)

\* round(n / d) for d > 0: Python rounds halves to the even integer.
RoundHalfEven(n, d) ==
    LET q == n \div d
        r == n % d
    IN  IF 2 * r < d THEN q
        ELSE IF 2 * r > d THEN q + 1
        ELSE IF q % 2 = 0 THEN q ELSE q + 1

-----------------------------------------------------------------------------
(* Sequences *)

Last(s) == s[Len(s)]

\* s[::-1]
RECURSIVE Reverse(_)
Reverse(s) == IF s = <<>> THEN <<>> ELSE Append(Reverse(Tail(s)), Head(s))

\* s without its element at position i (list.pop(i - 1)).
RemoveAt(s, i) == SubSeq(s, 1, i - 1) \o SubSeq(s, i + 1, Len(s))

\* Position of the first element equal to x (list.index(x) + 1), 0 if absent.
IndexOf(s, x) ==
    IF \E i \in 1..Len(s) : s[i] = x
    THEN CHOOSE i \in 1..Len(s) : s[i] = x /\ \A j \in 1..(i - 1) : s[j] # x
    ELSE 0

\* list.remove(x): s without the first element equal to x.
RemoveFirst(s, x) == RemoveAt(s, IndexOf(s, x))

\* Position x put into the sorted sequence of positions order, after every
\* position whose key is not greater; lt holds the pairs <<i, j>> with the
\* key of element i less than the key of element j.
InsertSorted(order, x, lt) ==
    LET after == {i \in 1..Len(order) : <<x, order[i]>> \in lt}
        n     == IF after = {} THEN Len(order) + 1
                 ELSE CHOOSE i \in after : \A j \in after : i <= j
    IN  SubSeq(order, 1, n - 1) \o <<x>> \o SubSeq(order, n, Len(order))

\* The positions 1..n in the order list.sort gives them: the sort is stable,
\* so elements with equal keys keep their order.
RECURSIVE SortOrder(_, _)
SortOrder(n, lt) ==
    IF n = 0 THEN <<>> ELSE InsertSorted(SortOrder(n - 1, lt), n, lt)

RECURSIVE Permute(_, _)
Permute(s, order) ==
    IF order = <<>> THEN <<>> ELSE <<s[Head(order)]>> \o Permute(s, Tail(order))

\* list.sort of s, with lt the pairs of positions whose keys compare less.
StableSort(s, lt) == Permute(s, SortOrder(Len(s), lt))

-----------------------------------------------------------------------------
(* Segment *)

\* The closing test of compute_hole: first point equals last, at least 4 points.
IsClosed(p) == Len(p) >= 4 /\ p[1] = Last(p)

\* min(enumerate(self.p), key = lambda p: p[1].c)[0] + 1: the first position
\* of the lexicographically smallest point.
MinIndex(p) ==
    CHOOSE i \in 1..Len(p) :
        /\ \A j \in 1..Len(p) : ~PtLess(p[j], p[i])
        /\ \A j \in 1..(i - 1) : PtLess(p[i], p[j])

\* compute_hole without the rotation: the points stay as they were given.
KeepOrder(p) == p

\* self.p = self.p[idx:-1] + self.p[:idx + 1]
RotateToMin(p) ==
    LET idx == MinIndex(p)
    IN  SubSeq(p, idx, Len(p) - 1) \o SubSeq(p, 1, idx)

\* The comparison of compute_hole the other way round:
\* v2.direction() < v1.direction().
HoleTestSwapped(q) == DirLess(Sub(q[Len(q) - 1], q[Len(q)]), Sub(q[2], q[1]))

\* The value compute_hole returns for the rotated points:
\* v1.direction() < v2.direction().
HoleTest(q) == DirLess(Sub(q[2], q[1]), Sub(q[Len(q) - 1], q[Len(q)]))

\* Segment.compute_hole: the points it leaves in self.p and the tag it returns.
compute_hole(p) ==
    IF ~IsClosed(p) THEN [p |-> p, is_hole |-> "None"]
    ELSE LET q == RotateToMin(p)
         IN  [p |-> q, is_hole |-> IF HoleTest(q) THEN "True" ELSE "False"]

\* Segment.__init__ on a sequence of Points; hole is "unset" when the keyword
\* is not given, else "None", "True" or "False".
SegmentInit(p, hole) ==
    LET s == compute_hole(p)
    IN  IF hole = "unset" THEN s
        ELSE IF hole = "None" THEN [p |-> s.p, is_hole |-> "None"]
        ELSE IF hole # s.is_hole THEN [p |-> Reverse(s.p), is_hole |-> hole]
        ELSE s

Segment(p) == SegmentInit(p, "unset")

\* Segment.__neg__
SegmentNeg(s) == Segment(Reverse(s.p))

\* len(segment): the number of Lines.
SegLen(s) == Len(s.p) - 1

\* Segment.__getitem__ (n counted from 1).
SegLine(s, n) == <<s.p[n], s.p[n + 1]>>

-----------------------------------------------------------------------------
(* Line *)

\* A rational n / d with the sign carried by n.
Rat(n, d) == IF d < 0 THEN [n |-> -n, d |-> -d] ELSE [n |-> n, d |-> d]

RatLess(a, b) == a.n * b.d < b.n * a.d

\* Line.project: dist_on as a rational, dist_from as an integer that has the
\* sign of the source's value and, for the two points projected on one line
\* by the same branch, a common positive factor (1 / unit for an aligned
\* line, 1 / (unit * sqrt(mylen2)) otherwise).  For a zero-length line the
\* source returns the length of P - p[0]; its square stands for it.
project(L, P) ==
    LET line_dir == Sub(L[2], L[1])
        mylen2   == Dot(line_dir, line_dir)
        v        == Sub(P, L[1])
    IN  IF mylen2 = 0 THEN [on |-> Rat(0, 1), from |-> Dot(v, v)]
        ELSE IF P = L[1] THEN [on |-> Rat(0, 1), from |-> 0]
        ELSE IF P = L[2] THEN [on |-> Rat(1, 1), from |-> 0]
        ELSE IF L[1][1] = L[2][1]
             THEN [on |-> Rat(P[2] - L[1][2], L[2][2] - L[1][2]),
                   from |-> P[1] - L[1][1]]
        ELSE IF L[1][2] = L[2][2]
             THEN [on |-> Rat(P[1] - L[1][1], L[2][1] - L[1][1]),
                   from |-> P[2] - L[1][2]]
        ELSE [on |-> Rat(Dot(line_dir, v), mylen2),
              from |-> Dot(line_dir, <<v[2], -v[1]>>)]

\* The collinear branch of Line.__mul__ (dist_from is 0 for both points of
\* other): the points each Segment is constructed from; on[i] is
\* dist_on[i - 1].
MulCollinear(self, other, on) ==
    LET P == IF RatLess(on[1], on[2]) THEN 1 ELSE 2
        Q == 3 - P
        inv(x) == IF P = 1 THEN x ELSE Reverse(x)
        unsplit == <<self, other>>
    IN  IF \/ (on[1].n <= 0 /\ on[2].n <= 0)
           \/ (on[1].n >= on[1].d /\ on[2].n >= on[2].d)
        THEN unsplit
        ELSE IF on[P].n < 0
        THEN IF on[Q].n < on[Q].d
             THEN <<<<self[1], other[P], self[2]>>,
                    inv(<<other[P], self[1], other[Q]>>)>>
             ELSE IF on[Q].n = on[Q].d
             THEN <<self, inv(<<other[P], self[1], other[Q]>>)>>
             ELSE <<self,
                    inv(<<other[P], self[1], self[2], other[Q]>>)>>
        ELSE IF on[P].n = 0
        THEN IF on[Q].n < on[Q].d
             THEN <<<<self[1], other[Q], self[2]>>, other>>
             ELSE IF on[Q].n = on[Q].d
             THEN unsplit
             ELSE <<self, inv(<<other[P], self[2], other[Q]>>)>>
        ELSE IF on[Q].n < on[Q].d
             THEN <<<<self[1], other[P], other[Q], self[2]>>, other>>
             ELSE IF on[Q].n = on[Q].d
             THEN <<<<self[1], other[P], self[2]>>, other>>
             ELSE <<<<self[1], other[P], self[2]>>,
                    inv(<<other[P], self[2], other[Q]>>)>>

\* The last branch of Line.__mul__: the points of other are on either side.
\* onX = dist_on[0] + (dist_on[1] - dist_on[0]) / (dist_from[1] - dist_from[0])
\*       * -dist_from[0]
MulCrossing(self, other, on, from) ==
    LET \* both dist_on come from the same branch of project: on[1].d = on[2].d
        onX == Rat(on[1].n * (from[2] - from[1]) + (on[2].n - on[1].n) * (-from[1]),
                   on[1].d * (from[2] - from[1]))
        dv  == Sub(self[2], self[1])
        X   == <<self[1][1] + RoundHalfEven(dv[1] * onX.n, onX.d),
                 self[1][2] + RoundHalfEven(dv[2] * onX.n, onX.d)>>
    IN  IF onX.n < 0 \/ onX.n > onX.d THEN <<self, other>>
        ELSE IF onX.n = 0
             THEN <<self, <<other[1], self[1], other[2]>>>>
        ELSE IF onX.n = onX.d
             THEN <<self, <<other[1], self[2], other[2]>>>>
        ELSE <<<<self[1], X, self[2]>>, <<other[1], X, other[2]>>>>

\* Line.__mul__: the point lists of the two Segments it constructs.
MulPoints(self, other) ==
    LET pr   == <<project(self, other[1]), project(self, other[2])>>
        on   == <<pr[1].on, pr[2].on>>
        from == <<pr[1].from, pr[2].from>>
    IN  IF (from[1] > 0 /\ from[2] > 0) \/ (from[1] < 0 /\ from[2] < 0)
        THEN <<self, other>>
        ELSE IF from[1] = 0 /\ from[2] = 0 THEN MulCollinear(self, other, on)
        ELSE IF from[1] = 0
             THEN IF 0 < on[1].n /\ on[1].n < on[1].d
                  THEN <<<<self[1], other[1], self[2]>>, other>>
                  ELSE <<self, other>>
        ELSE IF from[2] = 0
             THEN IF 0 < on[2].n /\ on[2].n < on[2].d
                  THEN <<<<self[1], other[2], self[2]>>, other>>
                  ELSE <<self, other>>
        ELSE MulCrossing(self, other, on, from)

\* Line.__mul__: the pair (Segment of self, Segment of other).
LineMul(self, other) ==
    LET r == MulPoints(self, other) IN <<Segment(r[1]), Segment(r[2])>>

-----------------------------------------------------------------------------
(* Part: a sequence of Segments *)

\* Part.__neg__
RECURSIVE PartNeg(_)
PartNeg(part) ==
    IF part = <<>> THEN <<>>
    ELSE <<SegmentNeg(Head(part))>> \o PartNeg(Tail(part))

\* The Lines of one Segment as combine collects them: none for a Segment
\* whose is_hole is None.
RECURSIVE LinesFrom(_, _)
LinesFrom(s, l) ==
    IF l > SegLen(s) THEN <<>> ELSE <<SegLine(s, l)>> \o LinesFrom(s, l + 1)

SegmentLines(s) == IF s.is_hole = "None" THEN <<>> ELSE LinesFrom(s, 1)

RECURSIVE PartLines(_)
PartLines(part) ==
    IF part = <<>> THEN <<>>
    ELSE SegmentLines(Head(part)) \o PartLines(Tail(part))

\* combine, "Put all lines in a list".
CollectLines(self, other) == PartLines(self) \o PartLines(other)

\* The Segments of a Part whose is_hole is None.
OpenSegments(part) == SelectSeq(part, LAMBDA s : s.is_hole = "None")

-----------------------------------------------------------------------------
(* combine: break up intersecting lines *)

\* lines[l] = s[0]; lines.append(s[ll]) for the other Lines of s; nothing
\* when s is a single Line.
ReplaceLine(ls, l, s) ==
    IF SegLen(s) = 1 THEN ls
    ELSE [ls EXCEPT ![l] = SegLine(s, 1)] \o LinesFrom(s, 2)

\* One pass of the inner loop body for the pair (l1, l2).
SplitPair(ls, l1, l2) ==
    LET r == LineMul(ls[l1], ls[l2])
    IN  ReplaceLine(ReplaceLine(ls, l1, r[1]), l2, r[2])

\* while l2 < len(lines): ...; l2 += 1   (l2 counted from 1)
RECURSIVE SplitInner(_, _, _)
SplitInner(ls, l1, l2) ==
    IF l2 > Len(ls) THEN ls
    ELSE SplitInner(SplitPair(ls, l1, l2), l1, l2 + 1)

\* while l1 < len(lines) - 1: ...; l1 += 1   (l1 counted from 1)
RECURSIVE SplitOuter(_, _)
SplitOuter(ls, l1) ==
    IF l1 >= Len(ls) THEN ls
    ELSE SplitOuter(SplitInner(ls, l1, l1 + 1), l1 + 1)

SplitLines(ls) == SplitOuter(ls, 1)

-----------------------------------------------------------------------------
(* combine: sort the list, remove duplicates *)

\* The sort key of a Line: its two points, the smaller first.
LineKey(l) == IF PtLess(l[1], l[2]) THEN l ELSE <<l[2], l[1]>>

KeyLess(k1, k2) ==
    PtLess(k1[1], k2[1]) \/ (k1[1] = k2[1] /\ PtLess(k1[2], k2[2]))

LineLess(x, y) == KeyLess(LineKey(x), LineKey(y))

SortLines(ls) ==
    StableSort(ls, {c \in (1..Len(ls)) \X (1..Len(ls)) : LineLess(ls[c[1]], ls[c[2]])})

\* The single pass that pops lines[l] and lines[l + 1] when one is the
\* reverse of the other (l counted from 1).
RECURSIVE RemoveDuplicatesFrom(_, _)
RemoveDuplicatesFrom(ls, l) ==
    IF l >= Len(ls) THEN ls
    ELSE IF ls[l] = <<ls[l + 1][2], ls[l + 1][1]>>
         THEN RemoveDuplicatesFrom(RemoveAt(RemoveAt(ls, l), l), l)
         ELSE RemoveDuplicatesFrom(ls, l + 1)

RemoveDuplicates(ls) == RemoveDuplicatesFrom(ls, 1)

-----------------------------------------------------------------------------
(* combine: the intersection dict *)

\* A Line object is identified by its position in the final list: the dict
\* holds the objects themselves and list.remove compares them by identity.
EndPoints(ls) == {ls[i][k] : i \in 1..Len(ls), k \in 1..2}

\* intersection[p]: the Lines with an end at p, in list order; a zero-length
\* Line is entered twice.
RECURSIVE IncidentFrom(_, _, _)
IncidentFrom(ls, p, i) ==
    IF i > Len(ls) THEN <<>>
    ELSE (IF ls[i][1] = p THEN <<i>> ELSE <<>>)
         \o (IF ls[i][2] = p THEN <<i>> ELSE <<>>)
         \o IncidentFrom(ls, p, i + 1)

Incident(ls, p) == IncidentFrom(ls, p, 1)

IntersectionDict(ls) == [p \in EndPoints(ls) |-> Incident(ls, p)]

\* points = list(intersection.keys()); points.sort(key = lambda p: p.c)
RECURSIVE SortedPoints(_)
SortedPoints(S) ==
    IF S = {} THEN <<>>
    ELSE LET m == CHOOSE p \in S : \A q \in S : ~PtLess(q, p)
         IN  <<m>> \o SortedPoints(S \ {m})

-----------------------------------------------------------------------------
(* combine: create the polygon tree *)

\* ((l[1] - p) + (l[0] - p)): for a Line with an end at p, the Vector from p
\* to its other end.
OutDir(l, p) == VAdd(Sub(l[2], p), Sub(l[1], p))

\* [(i, l) for i, l in enumerate(intersection[p])], positions counted from 1.
RECURSIVE Enumerate(_, _)
Enumerate(s, i) ==
    IF i > Len(s) THEN <<>> ELSE <<<<i, s[i]>>>> \o Enumerate(s, i + 1)

Candidates(inter, p) == Enumerate(inter[p], 1)

\* candidates[-1] after the sort by direction: the start edge at p.
FirstCandidate(ls, inter, p) ==
    LET c == Candidates(inter, p)
        ByDir(x, y) == DirLess(OutDir(ls[x[2]], p), OutDir(ls[y[2]], p))
    IN  Last(StableSort(c, {k \in (1..Len(c)) \X (1..Len(c)) : ByDir(c[k[1]], c[k[2]])}))

\* The selection loop "while True" over the sorted candidates: k steps have
\* been taken from t = len(candidates) - 1 downward.  A negative t indexes
\* from the end of the list, so the list is scanned twice before
\* candidates[t] raises IndexError (the result 0).  Otherwise the result is
\* the position of the chosen candidate.
RECURSIVE SelectCandidate(_, _, _, _, _, _)
SelectCandidate(ls, cand, p, a, k, depth) ==
    LET n == Len(cand)
    IN  IF k >= 2 * n THEN 0
        ELSE LET pos == n - (k % n)
             IN  IF ls[cand[pos][2]][a] # p
                 THEN SelectCandidate(ls, cand, p, a, k + 1, depth + 1)
                 ELSE IF depth > 0
                 THEN SelectCandidate(ls, cand, p, a, k + 1, depth - 1)
                 ELSE pos

\* while polygon[0] != polygon[-1]: append the next point.
RECURSIVE TracePolygon(_, _, _, _, _)
TracePolygon(ls, inter, polygon, a, b) ==
    IF polygon[1] = Last(polygon)
    THEN [inter |-> inter, polygon |-> polygon, raised |-> "none"]
    ELSE LET p     == Last(polygon)
             indir == Sub(polygon[Len(polygon) - 1], p)
             ByTurn(x, y) ==
                 RelDirLess(OutDir(ls[x[2]], p), OutDir(ls[y[2]], p), indir)
             c     == Candidates(inter, p)
             cand  == StableSort(c, {k \in (1..Len(c)) \X (1..Len(c)) :
                                        ByTurn(c[k[1]], c[k[2]])})
             pos   == SelectCandidate(ls, cand, p, a, 0, 0)
         IN  IF pos = 0
             THEN [inter |-> inter, polygon |-> polygon, raised |-> "IndexError"]
             ELSE LET index == cand[pos][1]
                      line  == cand[pos][2]
                      q     == ls[line][b]
                      i1    == [inter EXCEPT ![p] = RemoveAt(@, index)]
                      i2    == [i1 EXCEPT ![q] = RemoveFirst(@, line)]
                  IN  TracePolygon(ls, i2, Append(polygon, q), a, b)

\* One polygon extracted from the first point p with Lines left: the dict
\* afterwards, the polygon (reversed if hole) and the hole flag.
ExtractFrom(ls, inter, p) ==
    LET fc    == FirstCandidate(ls, inter, p)
        first == fc[2]
        hole  == ls[first][2] = p
        a     == IF hole THEN 2 ELSE 1
        b     == IF hole THEN 1 ELSE 2
        start == <<ls[first][a], ls[first][b]>>
        i1    == [inter EXCEPT ![p] = RemoveAt(@, fc[1])]
        i2    == [i1 EXCEPT ![start[2]] = RemoveFirst(@, first)]
        tr    == TracePolygon(ls, i2, start, a, b)
    IN  [inter   |-> tr.inter,
         polygon |-> IF hole THEN Reverse(tr.polygon) ELSE tr.polygon,
         hole    |-> hole,
         raised  |-> tr.raised]

\* Segment.contains(P) for a P that is not a point of the Segment: "True",
\* "False", or "AssertionError".  The sum of the angle changes is 360 times
\* the winding number of the path around P; with P inside an edge one change
\* is +-180 and the first assert fails; the second assert wants the winding
\* number in -1..1.
contains(p, P) ==
    LET a(i) == Sub(p[i], P)
        b(i) == Sub(p[i + 1], P)
        E    == 1..(Len(p) - 1)
        onEdge == \E i \in E : a(i) # b(i) /\ Cross(a(i), b(i)) = 0
                                /\ Dot(a(i), b(i)) < 0
        up   == {i \in E : a(i)[2] <= 0 /\ b(i)[2] > 0 /\ Cross(a(i), b(i)) > 0}
        down == {i \in E : a(i)[2] > 0 /\ b(i)[2] <= 0 /\ Cross(a(i), b(i)) < 0}
        num  == Cardinality(up) - Cardinality(down)
    IN  IF \E i \in 1..Len(p) : p[i] = P THEN "True"
        ELSE IF onEdge \/ num \notin {-1, 0, 1} THEN "AssertionError"
        ELSE IF num # 0 THEN "True" ELSE "False"

\* "Put holes inside containers": pop the stack until its top contains the
\* new polygon.  frames[i] is [polygon, hole, parent]; the stack holds
\* positions in frames.
RECURSIVE PopToContainer(_, _, _)
PopToContainer(fs, st, polygon) ==
    IF st = <<>> THEN [stack |-> st, raised |-> "none"]
    ELSE LET top    == fs[Last(st)]
             tp     == top.polygon.p
             keep   == [stack |-> st, raised |-> "none"]
             popped == SubSeq(st, 1, Len(st) - 1)
             idx    == IndexOf(tp, polygon[1])
         IN  IF tp[1] = polygon[1] THEN keep
             ELSE IF idx = 0
             THEN LET c == contains(tp, polygon[1])
                  IN  IF c = "AssertionError"
                      THEN [stack |-> st, raised |-> "AssertionError"]
                      ELSE IF c = "False" THEN PopToContainer(fs, popped, polygon)
                      ELSE keep
             ELSE LET sd1 == Sub(tp[idx - 1], tp[idx])
                      sd2 == Sub(tp[idx + 1], tp[idx])
                      pd  == Sub(polygon[2], polygon[1])
                      in0 == RelDirLess(pd, sd2, sd1)
                      inside == IF top.hole THEN ~in0 ELSE in0
                  IN  IF inside THEN keep ELSE PopToContainer(fs, popped, polygon)

\* frame = {'polygon': Segment(*polygon), 'contains': [], 'hole': hole},
\* appended to the contains list of the stack's top (parent: its position)
\* or to result (parent 0).
NewFrame(st, polygon, hole) ==
    [polygon |-> Segment(polygon), hole |-> hole,
     parent |-> IF st = <<>> THEN 0 ELSE Last(st)]

\* points without the leading points that have no Lines left.
RECURSIVE DropEmptyPoints(_, _)
DropEmptyPoints(pts, inter) ==
    IF pts = <<>> THEN pts
    ELSE IF inter[Head(pts)] = <<>> THEN DropEmptyPoints(Tail(pts), inter)
    ELSE pts

\* The contains list of frame g, or result for g = 0: the frames appended to
\* it, in the order of their creation.
RECURSIVE GroupFrom(_, _, _)
GroupFrom(fs, g, i) ==
    IF i > Len(fs) THEN <<>>
    ELSE (IF fs[i].parent = g THEN <<i>> ELSE <<>>) \o GroupFrom(fs, g, i + 1)

Group(fs, g) == GroupFrom(fs, g, 1)

-----------------------------------------------------------------------------
(* The state of the machines that are not running *)

IdleLine ==
    /\ linePc = "idle" /\ lineA = <<>> /\ lineB = <<>>
    /\ mulAB = <<>> /\ mulBA = <<>>

IdleSegment ==
    /\ segPc = "idle" /\ segArgs = <<>> /\ segHole = "unset"
    /\ seg = <<>> /\ segNeg = <<>>

IdleCombine ==
    /\ pc = "idle" /\ A = <<>> /\ B = <<>> /\ op = "none" /\ min_stack = 0
    /\ lines = <<>> /\ intersection = <<>> /\ points = <<>>
    /\ frames = <<>> /\ stack = <<>> /\ wstack = <<>> /\ branch = 0
    /\ new_result = <<>> /\ result = <<>> /\ raised = "none"
    /\ swapped = FALSE /\ prev = <<>>

-----------------------------------------------------------------------------
(* Line * Line: a caller computes A * B and then B * A *)

LineGrid == (0..MaxLineX) \X (0..MaxLineY)

\* Zero-length, axis-aligned and 45-degree lines: on these the floating-point
\* values of project and of onX decide every comparison of Line.__mul__ as
\* the exact values do.
Octilinear(L) ==
    LET d == Sub(L[2], L[1])
    IN  d[1] = 0 \/ d[2] = 0 \/ d[1] = d[2] \/ d[1] = -d[2]

LineInputs == {L \in LineGrid \X LineGrid : Octilinear(L)}

\* The point lists of the two Segments Line.__mul__ returns.
MulSegments(self, other) ==
    LET r == LineMul(self, other) IN <<r[1].p, r[2].p>>

InitLine ==
    /\ lineA \in LineInputs
    /\ lineB \in LineInputs
    /\ linePc = "start"
    /\ mulAB = <<>>
    /\ mulBA = <<>>
    /\ IdleSegment /\ IdleCombine

\* S_A, S_B = A * B
MulAB ==
    /\ linePc = "start"
    /\ mulAB' = MulSegments(lineA, lineB)
    /\ linePc' = "ab"
    /\ UNCHANGED <<lineA, lineB, mulBA, segVars, combVars>>

\* S_B', S_A' = B * A
MulBA ==
    /\ linePc = "ab"
    /\ mulBA' = MulSegments(lineB, lineA)
    /\ linePc' = "done"
    /\ UNCHANGED <<lineA, lineB, mulAB, segVars, combVars>>

NextLine == MulAB \/ MulBA

SpecLine == InitLine /\ [][NextLine]_vars

-----------------------------------------------------------------------------
(* Segment construction and negation *)

SegGrid == (0..MaxSegX) \X (0..MaxSegY)

\* Point sequences of 2 to MaxSegPoints points; the closed ones are those
\* whose last point repeats the first.
SegInputs ==
    UNION {[1..n -> SegGrid] : n \in 2..MaxSegPoints}

InitSegment ==
    /\ segArgs \in {p \in SegInputs : Len(p) < 4 \/ p[1] = Last(p)}
    /\ segHole \in {"unset", "None", "True", "False"}
    /\ segPc = "start"
    /\ seg = <<>>
    /\ segNeg = <<>>
    /\ IdleLine /\ IdleCombine

\* seg = Segment(*segArgs) or Segment(*segArgs, hole = segHole)
Construct ==
    /\ segPc = "start"
    /\ seg' = SegmentInit(segArgs, segHole)
    /\ segPc' = "built"
    /\ UNCHANGED <<segArgs, segHole, segNeg, lineVars, combVars>>

\* segNeg = -seg
Negate ==
    /\ segPc = "built"
    /\ segNeg' = SegmentNeg(seg)
    /\ segPc' = "negated"
    /\ UNCHANGED <<segArgs, segHole, seg, lineVars, combVars>>

NextSegment == Construct \/ Negate

SpecSegment == InitSegment /\ [][NextSegment]_vars

-----------------------------------------------------------------------------
(* Part operations: A + B, A - B, A * B, each one call of combine *)

\* The points of rect(): (x0, y0), (x0, y1), (x1, y1), (x1, y0), (x0, y0).
RectPoints(x0, y0, x1, y1) ==
    <<<<x0, y0>>, <<x0, y1>>, <<x1, y1>>, <<x1, y0>>, <<x0, y0>>>>

\* A set of Segments and their negations.
BothWays(S) == S \cup {SegmentNeg(r) : r \in S}

\* The rectangles with corners on the grid, as rect() orders their points and
\* reversed.
Rects ==
    BothWays({Segment(RectPoints(c[1][1], c[1][2], c[2][1], c[2][2])) :
                c \in {c \in ((0..MaxX) \X (0..MaxY)) \X ((0..MaxX) \X (0..MaxY)) :
                         c[1][1] < c[2][1] /\ c[1][2] < c[2][2]}})

\* The open Segment of cut((0, 0), (1, 1)).
Cut == Segment(<<<<0, 0>>, <<1, 1>>>>)

\* Operands of at most one rectangle, with or without an open Segment after it.
GridParts ==
    {c \o o : c \in {<<>>} \cup {<<r>> : r \in Rects}, o \in {<<>>, <<Cut>>}}

\* Square k lies strictly inside square k - 1.
Square(k) == Segment(RectPoints(k, k, 2 * MaxNest - 1 - k, 2 * MaxNest - 1 - k))

\* Operands of at most MaxSegments squares, each as Square(k) or reversed,
\* listed from the outside in.
NestedParts ==
    LET levels == UNION {[1..n -> 0..(MaxNest - 1)] : n \in 0..MaxSegments}
        inward == {l \in levels : \A i \in 1..(Len(l) - 1) : l[i] < l[i + 1]}
    IN  UNION {{part \in [1..Len(l) -> BothWays({Square(k) : k \in 0..(MaxNest - 1)})] :
                   \A i \in 1..Len(l) : part[i] \in BothWays({Square(l[i])})} :
               l \in inward}

\* Operands of two rectangles side by side in Square(0), each as rect()
\* orders its points or reversed.
TwinParts ==
    {<<l, r>> :
        l \in BothWays({Segment(RectPoints(1, 1, MaxNest - 1, 2 * MaxNest - 2))}),
        r \in BothWays({Segment(RectPoints(MaxNest, 1, 2 * MaxNest - 2,
                                           2 * MaxNest - 2))})}

\* Operands of at most MaxSegments of the outermost MaxRepeat squares, each
\* as Square(k) or reversed, in any order and with repetition.
RepeatParts ==
    UNION {[1..n -> BothWays({Square(k) : k \in 0..(MaxRepeat - 1)})] :
              n \in 0..MaxSegments}

\* The arguments of the combine call that A op B makes.
CombineSelf == A
CombineOther == IF op = "sub" THEN PartNeg(B) ELSE B

\* The state before the call of combine.
CombineStart ==
    /\ pc = "start"
    /\ min_stack = 0
    /\ lines = <<>> /\ intersection = <<>> /\ points = <<>>
    /\ frames = <<>> /\ stack = <<>> /\ wstack = <<>> /\ branch = 0
    /\ new_result = <<>> /\ result = <<>> /\ raised = "none"
    /\ swapped = FALSE /\ prev = <<>>
    /\ IdleLine /\ IdleSegment

InitCombine ==
    /\ \/ A \in GridParts /\ B \in GridParts
       \/ A \in NestedParts /\ B \in NestedParts
       \/ A \in NestedParts /\ B \in TwinParts
    /\ op \in {"add", "sub", "mul"}
    /\ CombineStart

\* __add__, __sub__ and __mul__ call combine with min_stack 1, 1 and 2;
\* combine puts all lines in a list.
Collect ==
    /\ pc = "start"
    /\ min_stack' = IF op = "mul" THEN 2 ELSE 1
    /\ lines' = CollectLines(CombineSelf, CombineOther)
    /\ pc' = "split"
    /\ UNCHANGED <<A, B, op, intersection, points, frames, stack, wstack, branch,
                   new_result, result, raised, swapped, prev, lineVars, segVars>>

\* Break up intersecting lines.
Split ==
    /\ pc = "split"
    /\ lines' = SplitLines(lines)
    /\ pc' = "sort"
    /\ UNCHANGED <<A, B, op, min_stack, intersection, points, frames, stack,
                   wstack, branch, new_result, result, raised, swapped, prev,
                   lineVars, segVars>>

\* Sort the list.
Sort ==
    /\ pc = "sort"
    /\ lines' = SortLines(lines)
    /\ pc' = "dedup"
    /\ UNCHANGED <<A, B, op, min_stack, intersection, points, frames, stack,
                   wstack, branch, new_result, result, raised, swapped, prev,
                   lineVars, segVars>>

\* Remove duplicates, generate the intersection dict and the sorted points.
Dedup ==
    /\ pc = "dedup"
    /\ lines' = RemoveDuplicates(lines)
    /\ intersection' = IntersectionDict(lines')
    /\ points' = SortedPoints(EndPoints(lines'))
    /\ pc' = "tree"
    /\ UNCHANGED <<A, B, op, min_stack, frames, stack, wstack, branch,
                   new_result, result, raised, swapped, prev, lineVars, segVars>>

\* The iterations of "while len(points) > 0" up to and including the next
\* one that extracts a polygon and puts it in the tree.
ExtractPolygon ==
    /\ pc = "tree"
    /\ \E pts \in {DropEmptyPoints(points, intersection)} :
         /\ pts # <<>>
         /\ points' = pts
         /\ \E ex \in {ExtractFrom(lines, intersection, Head(pts))} :
              IF ex.raised # "none"
              THEN /\ raised' = ex.raised
                   /\ pc' = "error"
                   /\ UNCHANGED <<intersection, frames, stack>>
              ELSE \E nst \in {PopToContainer(frames, stack, ex.polygon)} :
                   IF nst.raised # "none"
                   THEN /\ raised' = nst.raised
                        /\ pc' = "error"
                        /\ intersection' = ex.inter
                        /\ UNCHANGED <<frames, stack>>
                   ELSE /\ intersection' = ex.inter
                        /\ frames' = Append(frames, NewFrame(nst.stack, ex.polygon, ex.hole))
                        /\ stack' = Append(nst.stack, Len(frames) + 1)
                        /\ UNCHANGED <<pc, raised>>
    /\ UNCHANGED <<A, B, op, min_stack, lines, wstack, branch, new_result,
                   result, swapped, prev, lineVars, segVars>>

\* No point has Lines left: "Remove holes in holes and solids in solids"
\* starts with stack = [{'group': result, 'current': 0, 'depth': 0}].
StartWalk ==
    /\ pc = "tree"
    /\ DropEmptyPoints(points, intersection) = <<>>
    /\ points' = <<>>
    /\ wstack' = <<[group |-> 0, current |-> 0, depth |-> 0]>>
    /\ pc' = "walk"
    /\ UNCHANGED <<A, B, op, min_stack, lines, intersection, frames, stack,
                   branch, new_result, result, raised, swapped, prev,
                   lineVars, segVars>>

\* The depth counted up for every branch, hole or solid.
EnterDepthUp(depth, hole) == depth + 1

\* depth += (-1 if branch['hole'] else 1)
EnterDepth(depth, hole) == depth + (IF hole THEN -1 ELSE 1)

\* The emission test with holes passing at every depth below min_stack.
EmitsHolesBelow(depth, hole, m) == (depth <= m - 1 /\ hole) \/ (depth = m /\ ~hole)

\* The emission test of the walk.
Emits(depth, hole, m) == (depth = m - 1 /\ hole) \/ (depth = m /\ ~hole)

\* current < len(group): enter the next branch of the top frame's group.
WalkEnter ==
    /\ pc = "walk"
    /\ wstack # <<>>
    /\ LET frame == Last(wstack)
           group == Group(frames, frame.group)
       IN  /\ frame.current < Len(group)
           /\ LET br    == group[frame.current + 1]
                  depth == EnterDepth(frame.depth, frames[br].hole)
              IN  /\ branch' = br
                  /\ new_result' = IF Emits(depth, frames[br].hole, min_stack)
                                   THEN Append(new_result, br)
                                   ELSE new_result
                  /\ wstack' = Append([wstack EXCEPT ![Len(wstack)].current = @ + 1],
                                      [group |-> br, current |-> 0, depth |-> depth])
    /\ UNCHANGED <<pc, A, B, op, min_stack, lines, intersection, points, frames,
                   stack, result, raised, swapped, prev, lineVars, segVars>>

\* current >= len(group): "depth -= (-1 if branch['hole'] else 1)" changes
\* only the local depth, which is read again from the frame on the next
\* pass; the frame is popped.
WalkLeave ==
    /\ pc = "walk"
    /\ wstack # <<>>
    /\ Last(wstack).current >= Len(Group(frames, Last(wstack).group))
    /\ branch # 0
    /\ wstack' = SubSeq(wstack, 1, Len(wstack) - 1)
    /\ UNCHANGED <<pc, A, B, op, min_stack, lines, intersection, points, frames,
                   stack, branch, new_result, result, raised, swapped, prev,
                   lineVars, segVars>>

\* current >= len(group) before any branch was entered: the name branch is
\* not bound and reading it raises UnboundLocalError.
WalkUnbound ==
    /\ pc = "walk"
    /\ wstack # <<>>
    /\ Last(wstack).current >= Len(Group(frames, Last(wstack).group))
    /\ branch = 0
    /\ raised' = "UnboundLocalError"
    /\ pc' = "error"
    /\ UNCHANGED <<A, B, op, min_stack, lines, intersection, points, frames,
                   stack, wstack, branch, new_result, result, swapped, prev,
                   lineVars, segVars>>

\* The polygons of the frames new_result refers to.
RECURSIVE Polygons(_, _)
Polygons(fs, refs) ==
    IF refs = <<>> THEN <<>>
    ELSE <<fs[Head(refs)].polygon>> \o Polygons(fs, Tail(refs))

\* Handle non-polygon segments and return Part(*new_result).
Return ==
    /\ pc = "walk"
    /\ wstack = <<>>
    /\ result' = Polygons(frames, new_result)
                  \o OpenSegments(CombineSelf) \o OpenSegments(CombineOther)
    /\ pc' = "done"
    /\ UNCHANGED <<A, B, op, min_stack, lines, intersection, points, frames,
                   stack, wstack, branch, new_result, raised, swapped, prev,
                   lineVars, segVars>>

NextCombine ==
    \/ Collect \/ Split \/ Sort \/ Dedup
    \/ ExtractPolygon \/ StartWalk
    \/ WalkEnter \/ WalkLeave \/ WalkUnbound \/ Return

SpecCombine == InitCombine /\ [][NextCombine]_vars

-----------------------------------------------------------------------------
(* A + B and B + A, A * B and B * A *)

InitCommute ==
    /\ A \in RepeatParts
    /\ B \in RepeatParts
    /\ op \in {"add", "mul"}
    /\ CombineStart

\* After A + B or A * B has ended, the caller computes B + A or B * A: prev
\* keeps how the first call ended.
Swap ==
    /\ pc \in {"done", "error"}
    /\ ~swapped
    /\ prev' = [pc |-> pc, result |-> result, raised |-> raised]
    /\ swapped' = TRUE
    /\ A' = B
    /\ B' = A
    /\ pc' = "start"
    /\ min_stack' = 0
    /\ lines' = <<>> /\ intersection' = <<>> /\ points' = <<>>
    /\ frames' = <<>> /\ stack' = <<>> /\ wstack' = <<>> /\ branch' = 0
    /\ new_result' = <<>> /\ result' = <<>> /\ raised' = "none"
    /\ UNCHANGED <<op, lineVars, segVars>>

NextCommute == NextCombine \/ Swap

SpecCommute == InitCommute /\ [][NextCommute]_vars

-----------------------------------------------------------------------------
(* Part operations on triangles: edges of any direction *)

TriGrid == (0..MaxTriX) \X (0..MaxTriY)

\* The triangles with corners on the grid, the corners listed in
\* lexicographic order and reversed.
Triangles ==
    BothWays({Segment(<<c[1], c[2], c[3], c[1]>>) :
                c \in {c \in TriGrid \X TriGrid \X TriGrid :
                         /\ PtLess(c[1], c[2]) /\ PtLess(c[2], c[3])
                         /\ Cross(Sub(c[2], c[1]), Sub(c[3], c[1])) # 0}})

\* Operands of at most one triangle.
TriangleParts == {<<>>} \cup {<<t>> : t \in Triangles}

InitTriangle ==
    /\ A \in TriangleParts
    /\ B \in TriangleParts
    /\ op \in {"add", "sub", "mul"}
    /\ CombineStart

SpecTriangle == InitTriangle /\ [][NextCombine]_vars

-----------------------------------------------------------------------------
(* Every operation of the module *)

Init == InitLine \/ InitSegment \/ InitCombine

Next == NextLine \/ NextSegment \/ NextCombine

Spec == Init /\ [][Next]_vars

-----------------------------------------------------------------------------
(* Properties of Line * Line *)

\* The points of s strictly inside it: those a Line operation inserted.
Inserted(s) == SubSeq(s, 2, Len(s) - 1)

NoRepeats(s) == \A i, j \in 1..Len(s) : i # j => s[i] # s[j]

\* P lies on the Line L strictly between its two points.
StrictlyBetween(L, P) ==
    LET d == Sub(L[2], L[1])
        v == Sub(P, L[1])
    IN  Cross(d, v) = 0 /\ 0 < Dot(d, v) /\ Dot(d, v) < Dot(d, d)

\* s goes from L[1] to L[2] and its other points lie strictly between them,
\* in their order along L.
TracesLine(s, L) ==
    /\ s[1] = L[1]
    /\ Last(s) = L[2]
    /\ \A i \in 2..(Len(s) - 1) : StrictlyBetween(L, s[i])
    /\ \A i, j \in 2..(Len(s) - 1) :
          i < j => Dot(Sub(L[2], L[1]), Sub(s[i], L[1]))
                   < Dot(Sub(L[2], L[1]), Sub(s[j], L[1]))

\* C7: Line intersection is commutative up to the swap of the two Segments,
\* and no returned Segment holds the same inserted point twice: when A * B
\* returns (S_A, S_B), B * A returns (S_B, S_A) with the same point lists.
C7_MulCommutes ==
    linePc = "done" =>
        /\ mulBA = <<mulAB[2], mulAB[1]>>
        /\ NoRepeats(Inserted(mulAB[1])) /\ NoRepeats(Inserted(mulAB[2]))
        /\ NoRepeats(Inserted(mulBA[1])) /\ NoRepeats(Inserted(mulBA[2]))

\* C10: the Segments A * B returns trace the paths of A and of B: S_A goes
\* from A0 to A1, S_B from B0 to B1, and every inserted point lies on its
\* Segment's own Line strictly between the two ends, the inserted points in
\* their order along the Line.
C10_MulTracesPaths ==
    linePc # "start" =>
        /\ TracesLine(mulAB[1], lineA)
        /\ TracesLine(mulAB[2], lineB)

-----------------------------------------------------------------------------
(* Properties of Segment construction *)

\* Twice the signed area of the closed point list p: positive when p runs
\* counter-clockwise with the y axis up.
RECURSIVE Area2From(_, _)
Area2From(p, i) ==
    IF i >= Len(p) THEN 0 ELSE Cross(p[i], p[i + 1]) + Area2From(p, i + 1)

Area2(p) == Area2From(p, 1)

\* P lies on the closed stretch from a to b.
OnStretch(a, b, P) == Cross(Sub(b, a), Sub(P, a)) = 0 /\ Dot(Sub(a, P), Sub(b, P)) <= 0

\* The stretches a-b and c-d have a point in common.
Meet(a, b, c, d) ==
    \/ /\ Cross(Sub(b, a), Sub(c, a)) * Cross(Sub(b, a), Sub(d, a)) < 0
       /\ Cross(Sub(d, c), Sub(a, c)) * Cross(Sub(d, c), Sub(b, c)) < 0
    \/ OnStretch(a, b, c) \/ OnStretch(a, b, d)
    \/ OnStretch(c, d, a) \/ OnStretch(c, d, b)

\* The closed point list p is a simple polygon: its corners are distinct,
\* edges that follow one another share their corner only, and other edges
\* share nothing.
Simple(p) ==
    LET n == Len(p) - 1
        next(i) == IF i = n THEN 1 ELSE i + 1
    IN  /\ n >= 3
        /\ \A i, j \in 1..n : i # j => p[i] # p[j]
        /\ \A i \in 1..n :
              ~(/\ Cross(Sub(p[i], p[i + 1]), Sub(p[next(i) + 1], p[i + 1])) = 0
                /\ Dot(Sub(p[i], p[i + 1]), Sub(p[next(i) + 1], p[i + 1])) > 0)
        /\ \A i, j \in 1..n :
              (i < j /\ next(i) # j /\ next(j) # i)
                  => ~Meet(p[i], p[i + 1], p[j], p[j + 1])

\* The Segment was constructed from a closed point list without a hole
\* argument.
BuiltClosed == segPc # "start" /\ segHole = "unset" /\ IsClosed(segArgs)

\* direction(p[1] - p[0]) < direction(p[n-1] - p[n]) on the points of s.
FirstTurnsLeft(s) ==
    DirLess(Sub(s.p[2], s.p[1]), Sub(s.p[Len(s.p) - 1], s.p[Len(s.p)]))

\* C2 as the code has it: a closed Segment constructed without a hole
\* argument is tagged hole (is_hole = True) iff, on its rotated points,
\* direction(p[1] - p[0]) < direction(p[n-1] - p[n]), and solid otherwise;
\* the simple polygons tagged hole are exactly the counter-clockwise ones
\* (y up), the solids are the clockwise ones.
C2_HoleIffLeftTurn ==
    BuiltClosed =>
        /\ seg.is_hole \in {"True", "False"}
        /\ seg.is_hole = "True" <=> FirstTurnsLeft(seg)
        /\ Simple(seg.p) => (seg.is_hole = "True" <=> Area2(seg.p) > 0)
        /\ Simple(seg.p) => (seg.is_hole = "False" <=> Area2(seg.p) < 0)

\* A clockwise simple polygon has been constructed and is tagged solid.
C2_ClockwiseSolid ==
    /\ BuiltClosed
    /\ Simple(seg.p)
    /\ Area2(seg.p) < 0
    /\ seg.is_hole = "False"
    /\ ~FirstTurnsLeft(seg)

\* C2 as stated: a closed Segment constructed without a hole argument is
\* tagged solid (is_hole = False) iff direction(p[1] - p[0]) <
\* direction(p[n-1] - p[n]), so that the solids are the counter-clockwise
\* polygons.
C2_SolidIffLeftTurn ==
    BuiltClosed =>
        /\ seg.is_hole = "False" <=> FirstTurnsLeft(seg)
        /\ Simple(seg.p) => (seg.is_hole = "False" <=> Area2(seg.p) > 0)

\* The first point of a closed Segment is its lexicographically smallest.
LexMinFirst(s) ==
    IsClosed(s.p) => \A j \in 1..Len(s.p) : ~PtLess(s.p[j], s.p[1])

\* C9: every closed Segment has its lexicographically smallest point at
\* index 0 (and so at its last index): after construction with or without a
\* hole argument, after negation, and in the polygon tree and the result of
\* combine.
C9_LexMinFirst ==
    /\ segPc \in {"built", "negated"} => LexMinFirst(seg)
    /\ segPc = "negated" => LexMinFirst(segNeg)
    /\ \A i \in 1..Len(frames) : LexMinFirst(frames[i].polygon)
    /\ \A i \in 1..Len(result) : LexMinFirst(result[i])

\* A closed point list that did not start at its smallest point has been
\* made a Segment and negated.
C9_Rotated ==
    /\ segPc = "negated"
    /\ IsClosed(segArgs)
    /\ \E j \in 1..Len(segArgs) : PtLess(segArgs[j], segArgs[1])
    /\ seg.p # segArgs
    /\ seg.is_hole # "None"
    /\ IsClosed(seg.p) /\ IsClosed(segNeg.p)

-----------------------------------------------------------------------------
(* Properties of Part.combine *)

\* The closed Segments of a sequence of Segments, and whether it has none.
ClosedSegments(part) == SelectSeq(part, LAMBDA s : s.is_hole # "None")

NoClosed(part) == ClosedSegments(part) = <<>>

\* Frame i and its ancestors in the polygon tree.
RECURSIVE PathTo(_, _)
PathTo(fs, i) == IF i = 0 THEN {} ELSE {i} \cup PathTo(fs, fs[i].parent)

\* The solid frames minus the hole frames among frame i and its ancestors.
FrameDepth(fs, i) ==
    Cardinality({j \in PathTo(fs, i) : ~fs[j].hole})
        - Cardinality({j \in PathTo(fs, i) : fs[j].hole})

\* min_stack as the operation passes it: 1 for union (and difference), 2 for
\* intersection.
MinStackOf(o) == IF o = "mul" THEN 2 ELSE 1

\* The rule of the depth filter for frame i.
PassesFilter(fs, i, m) ==
    \/ FrameDepth(fs, i) = m - 1 /\ fs[i].hole
    \/ FrameDepth(fs, i) = m /\ ~fs[i].hole

\* The frames new_result refers to.
Emitted == {new_result[n] : n \in 1..Len(new_result)}

\* C1: with the depth of a frame the number of solid frames minus the number
\* of hole frames among it and its ancestors, a frame's polygon is in the
\* output iff (depth = min_stack - 1 and the frame is a hole) or
\* (depth = min_stack and the frame is a solid), min_stack being 1 for A + B
\* and 2 for A * B; every frame is entered with that depth, whatever
\* subtrees the walk has left before.
C1_DepthFilter ==
    /\ pc = "walk" =>
          \A k \in 2..Len(wstack) :
              wstack[k].depth = FrameDepth(frames, wstack[k].group)
    /\ pc = "done" =>
          /\ \A i \in 1..Len(frames) :
                i \in Emitted <=> PassesFilter(frames, i, MinStackOf(op))
          /\ NoRepeats(new_result)
          /\ ClosedSegments(result) = Polygons(frames, new_result)

\* An operation has ended whose tree has an emitted hole, a skipped frame
\* and two frames inside the same frame.
C1_FilterDecides ==
    /\ pc = "done"
    /\ \E i \in Emitted : frames[i].hole
    /\ \E i \in 1..Len(frames) : i \notin Emitted
    /\ \E i, j \in 1..Len(frames) :
          i < j /\ frames[i].parent = frames[j].parent /\ frames[i].parent # 0

\* C3: for a Part A of closed Segments, A - A completes normally and its
\* result has no closed Segment.
C3_SelfDifferenceEmpty ==
    (op = "sub" /\ A = B /\ A # <<>> /\ ClosedSegments(A) = A) =>
        /\ raised = "none"
        /\ pc = "done" => NoClosed(result)

\* The closed Segments of a Part as an operation leaves them: none, or a
\* solid followed by holes.
NormalResult(part) ==
    LET c == ClosedSegments(part)
    IN  c # <<>> =>
            /\ c[1].is_hole = "False"
            /\ \A i \in 2..Len(c) : c[i].is_hole = "True"

\* C4: the empty Part is an identity for union and absorbing for
\* intersection: for a Part A whose closed Segments are a result of the
\* engine, A = Part() included, A + Part() completes with exactly the
\* Segments of A and A * Part() completes with no closed Segment.
C4_EmptyPartIdentity ==
    (B = <<>> /\ op \in {"add", "mul"} /\ NormalResult(A)) =>
        /\ raised = "none"
        /\ (pc = "done" /\ op = "add") => result = A
        /\ (pc = "done" /\ op = "mul") => NoClosed(result)

\* The Lines of the open Segments of a Part.
RECURSIVE OpenLines(_)
OpenLines(part) ==
    IF part = <<>> THEN {}
    ELSE (IF Head(part).is_hole = "None"
          THEN {SegLine(Head(part), n) : n \in 1..SegLen(Head(part))}
          ELSE {})
         \cup OpenLines(Tail(part))

\* C5: open Segments pass through combine unchanged, for all Parts, those
\* without a closed Segment included: no Line of an open Segment enters the
\* list of lines, and the call returns the closed Segments of the result
\* followed by the open Segments of self and then those of other.
C5_OpenPassThrough ==
    /\ pc = "split" =>
          \A l \in 1..Len(lines) :
              lines[l] \notin OpenLines(CombineSelf) \cup OpenLines(CombineOther)
    /\ raised = "none"
    /\ pc = "done" =>
          result = ClosedSegments(result)
                   \o OpenSegments(CombineSelf) \o OpenSegments(CombineOther)

\* The number of times x occurs in s.
Count(s, x) == Cardinality({i \in 1..Len(s) : s[i] = x})

SameBag(s, t) ==
    /\ Len(s) = Len(t)
    /\ \A i \in 1..Len(s) : Count(s, s[i]) = Count(t, s[i])

\* C6: union and intersection are commutative: when A + B and B + A (A * B
\* and B * A) have both returned, their results hold the same closed
\* Segments, each as many times.
C6_Commutative ==
    (swapped /\ pc = "done" /\ prev.pc = "done") =>
        SameBag(ClosedSegments(prev.result), ClosedSegments(result))

\* The solid ancestors of frame i that are emitted.
EmittedSolidsAround(fs, i) ==
    {j \in PathTo(fs, i) \ {i} : ~fs[j].hole /\ j \in Emitted}

\* The nearest emitted ancestor of frame i, 0 when it has none.
RECURSIVE NearestEmitted(_, _)
NearestEmitted(fs, i) ==
    LET up == fs[i].parent
    IN  IF up = 0 THEN 0
        ELSE IF up \in Emitted THEN up
        ELSE NearestEmitted(fs, up)

\* C8 as the code has it: in the result of one combine call every emitted
\* hole has at least one emitted solid among its ancestors in the polygon
\* tree, and its nearest emitted ancestor is a solid.
C8_HoleInsideSolid ==
    pc = "done" =>
        \A i \in Emitted :
            frames[i].hole =>
                /\ Cardinality(EmittedSolidsAround(frames, i)) >= 1
                /\ NearestEmitted(frames, i) # 0
                /\ ~frames[NearestEmitted(frames, i)].hole

\* An operation has ended with an emitted hole that lies in two emitted
\* solids.
C8_HoleInTwoSolids ==
    /\ pc = "done"
    /\ \E i \in Emitted :
          frames[i].hole /\ Cardinality(EmittedSolidsAround(frames, i)) >= 2

\* C8 as stated: every emitted hole has exactly one emitted solid among its
\* ancestors in the polygon tree.
C8_HoleInsideOneSolid ==
    pc = "done" =>
        \A i \in Emitted :
            frames[i].hole => Cardinality(EmittedSolidsAround(frames, i)) = 1

-----------------------------------------------------------------------------
(* Properties of the polygon tree *)

\* The closed point list p with every coordinate doubled, so that the middle
\* of an edge is a grid point.
RECURSIVE Doubled(_)
Doubled(p) ==
    IF p = <<>> THEN <<>>
    ELSE <<<<2 * Head(p)[1], 2 * Head(p)[2]>>>> \o Doubled(Tail(p))

\* The corners of the closed point list p and the middles of its edges, in
\* doubled coordinates.
CornersAndMiddles(p) ==
    {<<2 * p[i][1], 2 * p[i][2]>> : i \in 1..Len(p)}
    \cup {VAdd(p[i], p[i + 1]) : i \in 1..(Len(p) - 1)}

\* How many times the closed point list p winds around P, a point on none
\* of its edges.
WindingNumber(p, P) ==
    LET E    == 1..(Len(p) - 1)
        a(i) == Sub(p[i], P)
        b(i) == Sub(p[i + 1], P)
        up   == {i \in E : a(i)[2] <= 0 /\ b(i)[2] > 0 /\ Cross(a(i), b(i)) > 0}
        down == {i \in E : a(i)[2] > 0 /\ b(i)[2] <= 0 /\ Cross(a(i), b(i)) < 0}
    IN  Cardinality(up) - Cardinality(down)

\* P lies on an edge of the closed point list p or in the region it encloses.
InRegion(p, P) ==
    \/ \E i \in 1..(Len(p) - 1) : OnStretch(p[i], p[i + 1], P)
    \/ WindingNumber(p, P) # 0

\* The polygon q lies in the closed region of the polygon p: every corner
\* and every middle of an edge of q does.
LiesIn(q, p) ==
    \A P \in CornersAndMiddles(q) : InRegion(Doubled(p), P)

\* C11: in the polygon tree of combine, a polygon whose first point is the
\* first point of its parent (the top of the stack when it was put in the
\* tree, kept without a containment test) lies in its parent.
C11_SharedFirstPointContained ==
    \A i \in 1..Len(frames) :
        LET up == frames[i].parent
        IN  (up # 0 /\ frames[i].polygon.p[1] = frames[up].polygon.p[1]) =>
                LiesIn(frames[i].polygon.p, frames[up].polygon.p)

-----------------------------------------------------------------------------
(* Properties of the list of lines *)

\* The Line from the second point of l to its first.
Reversed(l) == <<l[2], l[1]>>

\* The list as combine sorts it, before the removal of duplicates.
SortedLines == SortLines(SplitLines(CollectLines(CombineSelf, CombineOther)))

\* How many copies of l the removal of duplicates took from the list sorted.
Removed(sorted, l) == Count(sorted, l) - Count(lines, l)

\* combine has removed the duplicates from the list.
DuplicatesRemoved == pc \in {"tree", "walk", "done", "error"}

\* C12: after the removal of duplicates no Line of the list is followed by
\* its reverse, as many copies of a Line were removed as of its reverse, and
\* no copy of a Line was removed whose reverse was not in the sorted list.
C12_ReversesRemoved ==
    DuplicatesRemoved =>
        /\ \A l \in 1..(Len(lines) - 1) : lines[l] # Reversed(lines[l + 1])
        /\ \A sorted \in {SortedLines} :
              \A e \in {sorted[l] : l \in 1..Len(sorted)} :
                  /\ Removed(sorted, e) >= 0
                  /\ Removed(sorted, e) = Removed(sorted, Reversed(e))
                  /\ Count(sorted, Reversed(e)) = 0 => Removed(sorted, e) = 0

\* P lies on the Line l and is neither of its points.
InsideLine(l, P) ==
    /\ P # l[1] /\ P # l[2]
    /\ OnStretch(l[1], l[2], P)

\* The Lines l and m cross in a point that is an end of neither.
CrossInside(l, m) ==
    /\ Cross(Sub(l[2], l[1]), Sub(m[1], l[1])) * Cross(Sub(l[2], l[1]), Sub(m[2], l[1])) < 0
    /\ Cross(Sub(m[2], m[1]), Sub(l[1], m[1])) * Cross(Sub(m[2], m[1]), Sub(l[2], m[1])) < 0

\* The Lines l and m are the same or each other's reverse, or they share no
\* point other than a common end.
Separate(l, m) ==
    \/ l = m
    \/ l = Reversed(m)
    \/ /\ ~CrossInside(l, m)
       /\ ~InsideLine(l, m[1]) /\ ~InsideLine(l, m[2])
       /\ ~InsideLine(m, l[1]) /\ ~InsideLine(m, l[2])

\* C13: when the loop that breaks up intersecting lines has ended, any two
\* Lines of the list are the same or reversed, or share no point other than
\* a common end.
C13_AllIntersectionsInserted ==
    pc = "sort" =>
        \A l1, l2 \in 1..Len(lines) : l1 < l2 => Separate(lines[l1], lines[l2])

=============================================================================
